---- MODULE Spec2Model ----
(***************************************************************************)
(* Model of the external-library probe of SLEPc's configure scripts:       *)
(* config/package.py (Package.GenerateGuesses, LinkWithOutput, FortranLink,*)
(* FortranLib) and config/log.py (Log.write, Println, Exit).               *)
(*                                                                         *)
(* A Python string is modelled as a sequence of atoms.  An atom is a       *)
(* single character wherever the code looks inside the string (upper(),    *)
(* lower(), lstrip()), and a longer literal where the code only            *)
(* concatenates it.  String concatenation is \o on these sequences.        *)
(***************************************************************************)
EXTENDS Integers, Sequences, FiniteSets, TLC

\* ------------------------------------------------------------------ bounds
MaxDirs == 2      \* longest directory list handed to FortranLib
MaxLibs == 2      \* longest list of library-name sets handed to FortranLib
MaxExist == 2     \* most candidate paths that exist during GenerateGuesses

\* --------------------------------------------------------- string helpers
RECURSIVE Flatten(_)
\* ''.join(list): concatenation of a list of strings
Flatten(ss) == IF ss = <<>> THEN <<>> ELSE Head(ss) \o Flatten(Tail(ss))

RECURSIVE Join(_, _)
\* sep.join(list)
Join(sep, ss) ==
  IF ss = <<>> THEN <<>>
  ELSE IF Len(ss) = 1 THEN ss[1]
  ELSE ss[1] \o sep \o Join(sep, Tail(ss))

\* str.upper() on one character
UpperChar(ch) ==
  CASE ch = "a" -> "A" [] ch = "b" -> "B" [] ch = "c" -> "C" [] ch = "d" -> "D"
    [] ch = "e" -> "E" [] ch = "f" -> "F" [] ch = "g" -> "G" [] ch = "h" -> "H"
    [] ch = "i" -> "I" [] ch = "j" -> "J" [] ch = "k" -> "K" [] ch = "l" -> "L"
    [] ch = "m" -> "M" [] ch = "n" -> "N" [] ch = "o" -> "O" [] ch = "p" -> "P"
    [] ch = "q" -> "Q" [] ch = "r" -> "R" [] ch = "s" -> "S" [] ch = "t" -> "T"
    [] ch = "u" -> "U" [] ch = "v" -> "V" [] ch = "w" -> "W" [] ch = "x" -> "X"
    [] ch = "y" -> "Y" [] ch = "z" -> "Z"
    [] OTHER -> ch

\* str.lower() on one character
LowerChar(ch) ==
  CASE ch = "A" -> "a" [] ch = "B" -> "b" [] ch = "C" -> "c" [] ch = "D" -> "d"
    [] ch = "E" -> "e" [] ch = "F" -> "f" [] ch = "G" -> "g" [] ch = "H" -> "h"
    [] ch = "I" -> "i" [] ch = "J" -> "j" [] ch = "K" -> "k" [] ch = "L" -> "l"
    [] ch = "M" -> "m" [] ch = "N" -> "n" [] ch = "O" -> "o" [] ch = "P" -> "p"
    [] ch = "Q" -> "q" [] ch = "R" -> "r" [] ch = "S" -> "s" [] ch = "T" -> "t"
    [] ch = "U" -> "u" [] ch = "V" -> "v" [] ch = "W" -> "w" [] ch = "X" -> "x"
    [] ch = "Y" -> "y" [] ch = "Z" -> "z"
    [] OTHER -> ch

upper(s) == [i \in 1..Len(s) |-> UpperChar(s[i])]
lower(s) == [i \in 1..Len(s) |-> LowerChar(s[i])]

RECURSIVE lstrip(_, _)
\* s.lstrip(chars): drops every leading character that is in chars
lstrip(s, chars) ==
  IF s # <<>> /\ Head(s) \in chars THEN lstrip(Tail(s), chars) ELSE s

\* os.path.join of two and of three components (none absolute, none empty)
PathJoin2(a, b) == a \o <<"/">> \o b
PathJoin3(a, b, c) == a \o <<"/">> \o b \o <<"/">> \o c

RECURSIVE RemoveFirst(_, _)
\* list.remove(x): removes the first element equal to x
RemoveFirst(s, x) ==
  IF s = <<>> THEN <<>>
  ELSE IF Head(s) = x THEN Tail(s)
  ELSE <<Head(s)>> \o RemoveFirst(Tail(s), x)

\* All lists over S of length at most n
SeqsUpTo(S, n) == UNION {[1..k -> S] : k \in 0..n}

\* ------------------------------------------------------------ input pools
\* self.packagename of the package object being probed
PackageNames == { <<"f","o","o">>, <<"b","a","S">> }

\* directories a caller hands to FortranLib: '' and one real directory
DirPool == { <<>>, <<"/opt/foo/lib">> }
DirLists == SeqsUpTo(DirPool, MaxDirs)

\* library-name sets: ['-lfoo'] and ['-lla','-lb']
LibPool == { << <<"-","l","f","o","o">> >>,
             << <<"-","l","l","a">>, <<"-","l","b">> >> }
LibLists == SeqsUpTo(LibPool, MaxLibs)

\* (functions, callbacks) argument pairs
SymbolSets == { [functions |-> << <<"f","s">> >>, callbacks |-> <<>>],
                [functions |-> << <<"F","S">>, <<"a","b">> >>,
                 callbacks |-> << <<"c","b">> >>] }

\* petscconf.SLFLAG of the host toolchain (the shared-library flag)
SLFlags == { <<"-Wl,-rpath,">>, <<"-R">> }

\* tmpdir argument (the arch directory) and the directory configure runs in
tmpdir == <<"arch">>
slepcdir == <<"slepcdir">>
WorkDirs == { tmpdir, slepcdir }

\* names handed to GenerateGuesses and values of os.environ.get('HOME')
GuessNames == { <<"A","b">>, <<"a","b">>, <<"A","B">> }
NoHome == <<"<unset>">>
Homes == { NoHome, <<"/home/u">> }

\* a value for a local variable that has not been assigned
Unbound == << <<"<unbound>">> >>
UnboundStr == <<"<unbound>">>

\* ---------------------------------------------------------------- state
VARIABLES
  pc,           \* control point of the probe
  packagename,  \* self.packagename
  SLFLAG,       \* petscconf.SLFLAG
  cwd,          \* the process's working directory
  files,        \* paths of the checklink.c files that exist
  dirs, libs, functions, callbacks,   \* arguments of FortranLib
  di, li,       \* positions of the two for loops of FortranLib
  d, l, flags, mangling, output, error,   \* locals of FortranLib
  output0, output1, output2,              \* locals of FortranLink
  trials,       \* the LinkWithOutput calls made so far, with their results
  log,          \* strings written to the log file
  logopen,      \* the log file is open
  stdout,       \* strings printed on the console
  stderr,       \* strings printed on standard error at termination
  conf, vars, cmake,   \* strings written to slepcconf.h, slepcvariables, SLEPcConfig.cmake
  retval,       \* value returned by FortranLib
  exitstatus,   \* exit status of the process (-1 while it runs)
  guessname, home, exists, guesses,  \* GenerateGuesses: argument, HOME, existing paths, result
  argv,         \* the options given on the command line
  argdb,        \* the options not yet popped from the argument database
  pkgs,         \* the package objects of checkpackages, by position
  pkidx,        \* position of the driver in checkpackages
  processed     \* the Process calls made so far and what each one ran

vars_all == <<pc, packagename, SLFLAG, cwd, files, dirs, libs, functions,
              callbacks, di, li, d, l, flags, mangling, output, error,
              output0, output1, output2, trials, log, logopen, stdout,
              stderr, conf, vars, cmake, retval, exitstatus,
              guessname, home, exists, guesses, argv, argdb, pkgs, pkidx,
              processed>>

drv_vars == <<argv, argdb, pkgs, pkidx, processed>>

\* ------------------------------------------------------- GenerateGuesses
usr_local == <<"/usr/local">>
opt == <<"/opt">>

\* installdirs of GenerateGuesses: HOME is put first when it is set
installdirs(h) == IF h # NoHome THEN <<h, usr_local, opt>> ELSE <<usr_local, opt>>

\* the three paths added for one spelling dd of the name under prefix i
CaseDirs(i, dd) ==
  << PathJoin2(i, dd), PathJoin3(i, dd, <<"lib">>), PathJoin3(i, <<"lib">>, dd) >>

\* the paths of one prefix with the lower-cased name tried before the upper-cased
PrefixDirsLowerFirst(i, name) ==
  << PathJoin2(i, <<"lib">>) >> \o CaseDirs(i, name)
     \o CaseDirs(i, lower(name)) \o CaseDirs(i, upper(name))

\* the paths added for one prefix i
PrefixDirs(i, name) ==
  << PathJoin2(i, <<"lib">>) >> \o CaseDirs(i, name)
     \o CaseDirs(i, upper(name)) \o CaseDirs(i, lower(name))

RECURSIVE CandidateDirs(_, _)
\* the unfiltered list built by the nested loops over installdirs
CandidateDirs(prefixes, name) ==
  IF prefixes = <<>> THEN <<>>
  ELSE PrefixDirs(Head(prefixes), name) \o CandidateDirs(Tail(prefixes), name)

RECURSIVE FilterLive(_, _, _)
\* the filtering loop written over the list it removes from (for d in dirs)
FilterLive(ds, k, existing) ==
  IF k > Len(ds) THEN ds
  ELSE IF ds[k] \notin existing
       THEN FilterLive(RemoveFirst(ds, ds[k]), k + 1, existing)
       ELSE FilterLive(ds, k + 1, existing)

ExistenceFilterLive(ds, existing) == FilterLive(ds, 1, existing)

RECURSIVE FilterCopy(_, _, _)
\* for d in dirs[:]: if not os.path.exists(d): dirs.remove(d)
FilterCopy(copy, ds, existing) ==
  IF copy = <<>> THEN ds
  ELSE FilterCopy(Tail(copy),
                  IF Head(copy) \notin existing THEN RemoveFirst(ds, Head(copy)) ELSE ds,
                  existing)

ExistenceFilter(ds, existing) == FilterCopy(ds, ds, existing)

\* the list GenerateGuesses returns
GenerateGuessesResult(name, h, existing) ==
  << <<>> >> \o ExistenceFilter(CandidateDirs(installdirs(h), name), existing)

Range(s) == {s[i] : i \in 1..Len(s)}

\* the sets of existing paths considered for one call
RECURSIVE SubsetsUpTo(_, _)
\* the subsets of S with at most k elements
SubsetsUpTo(S, k) ==
  IF k = 0 THEN {{}}
  ELSE LET P == SubsetsUpTo(S, k - 1) IN P \cup {A \cup {x} : A \in P, x \in S}

ExistingSets(name, h) == SubsetsUpTo(Range(CandidateDirs(installdirs(h), name)), MaxExist)

\* ------------------------------------------------------- LinkWithOutput
RECURSIVE Declarations(_)
Declarations(fs) ==
  IF fs = <<>> THEN <<>>
  ELSE <<"PETSC_EXTERN int\n">> \o Head(fs) \o <<"();\n">> \o Declarations(Tail(fs))

RECURSIVE Stubs(_)
Stubs(cs) ==
  IF cs = <<>> THEN <<>>
  ELSE <<"int ">> \o Head(cs) \o <<"() { return 0; } \n">> \o Stubs(Tail(cs))

RECURSIVE Calls(_)
Calls(fs) ==
  IF fs = <<>> THEN <<>>
  ELSE Head(fs) \o <<"();\n">> \o Calls(Tail(fs))

\* the source text of checklink.c
Code(fs, cs) ==
  <<"#include \"petscksp.h\"\n">> \o Declarations(fs) \o Stubs(cs)
    \o <<"int main() {\n", "Vec v; Mat m; KSP k;\n", "PetscInitializeNoArguments();\n",
         "VecCreate(PETSC_COMM_WORLD,&v);\n", "MatCreate(PETSC_COMM_WORLD,&m);\n",
         "KSPCreate(PETSC_COMM_WORLD,&k);\n">>
    \o Calls(fs) \o <<"return 0;\n}\n">>

\* what the build tool prints: its text is determined by its exit status here
MakeOutput(status) == IF status = 0 THEN <<"make: ok">> ELSE <<"make: *** [checklink] Error 1">>

\* exit statuses of the build tool
MakeStatuses == {0, 2}

\* path of a file checklink.c in a directory; a relative name is resolved in cwd
CheckLinkIn(dir) == <<dir, "checklink.c">>

\* the file written by open(os.path.join(tmpdir,'checklink.c'),'w')
CreatedFile == CheckLinkIn(tmpdir)

\* the file named by os.remove('checklink.c')
RemovedFile(wd) == CheckLinkIn(wd)

\* files after one LinkWithOutput call made in working directory wd
FilesAfterLink(fl, wd) == (fl \cup {CreatedFile}) \ {RemovedFile(wd)}

\* LinkWithOutput returning only the captured output when the build fails
LinkWithOutputNoCodeOnFailure(fs, cs, st) ==
  IF st # 0 THEN <<0, MakeOutput(st)>>
  ELSE <<1, Code(fs, cs) \o MakeOutput(st)>>

\* the pair LinkWithOutput returns for build-tool exit status st
LinkWithOutput(fs, cs, st) ==
  IF st # 0 THEN <<0, Code(fs, cs) \o MakeOutput(st)>>
  ELSE <<1, Code(fs, cs) \o MakeOutput(st)>>

\* ----------------------------------------------------------- FortranLink
Underscored(names) == [i \in 1..Len(names) |-> names[i] \o <<"_">>]
Capitalized(names) == [i \in 1..Len(names) |-> upper(names[i])]

LinkerFlagsHeader(fl) == <<"\n=== With linker flags: ">> \o Join(<<" ">>, fl)
UnderscoreTitle == <<"\n====== With underscore Fortran names\n">>
CapitalTitle == <<"\n====== With capital Fortran names\n">>
UnmodifiedTitle == <<"\n====== With unmodified Fortran names\n">>

\* ------------------------------------------------------------ FortranLib
\* 'rpath' in petscconf.SLFLAG
HasRpath(sl) == \E i \in 1..Len(sl) : sl[i] \in {"-Wl,-rpath,", "-rpath "}

\* flags built without the -L entry
FlagsNoDashL(dd, ll, sl) ==
  IF dd # <<>>
  THEN IF HasRpath(sl) THEN << sl \o dd >> \o ll ELSE ll
  ELSE ll

\* the flags FortranLib builds for directory dd and library set ll
Flags(dd, ll, sl) ==
  IF dd # <<>>
  THEN IF HasRpath(sl) THEN << sl \o dd >> \o << <<"-L">> \o dd >> \o ll
       ELSE << <<"-L">> \o dd >> \o ll
  ELSE ll

\* text written to the configuration header
HeaderText(name, mang) ==
  <<"#ifndef SLEPC_HAVE_">> \o name \o <<"\n#define SLEPC_HAVE_">> \o name
    \o <<" 1\n#define SLEPC_">> \o name \o <<"_HAVE_">> \o mang \o <<" 1\n#endif\n\n">>

\* text written to the build-variable file
VarsText(name, fl) == name \o <<"_LIB = ">> \o Join(<<" ">>, fl) \o <<"\n">>

\* the two texts written to the CMake file
CMakeSetText(name) == <<"set (SLEPC_HAVE_">> \o name \o <<" YES)\n">>

libname(ll) == Join(<<" ">>, [i \in 1..Len(ll) |-> lstrip(ll[i], {"-", "l"})])

CMakeFindText(name, ln, dd) ==
  <<"set (">> \o name \o <<"_LIB \"\")\n", "foreach (libname ">> \o ln \o <<")\n">>
    \o <<"  string (TOUPPER ${libname} LIBNAME)\n">>
    \o <<"  find_library (${LIBNAME}LIB ${libname} HINTS ">> \o dd \o <<")\n">>
    \o <<"  list (APPEND ">> \o name \o <<"_LIB \"${${LIBNAME}LIB}\")\n", "endforeach()\n">>

\* ------------------------------------------------------------------- Log
\* Log.write(string): the string and a newline go to the log file
LogWrite(lg, string) == Append(lg, string \o <<"\n">>)

\* print(string)
PrintLine(out, string) == Append(out, string \o <<"\n">>)

\* ------------------------------------------------------------------ Init
\* The state when the driver reaches the package checks: the log is open and
\* holds its first line, the header holds its include guard.
Init ==
  /\ pc = "start"
  /\ packagename \in PackageNames
  /\ SLFLAG \in SLFlags
  /\ cwd \in WorkDirs
  /\ files = {}
  /\ dirs = <<>> /\ libs = <<>> /\ functions = <<>> /\ callbacks = <<>>
  /\ di = 0 /\ li = 0
  /\ d = UnboundStr /\ l = Unbound /\ flags = Unbound
  /\ mangling = UnboundStr /\ output = UnboundStr /\ error = UnboundStr
  /\ output0 = UnboundStr /\ output1 = UnboundStr /\ output2 = UnboundStr
  /\ trials = <<>>
  /\ log = << <<"====", "\n">> >>
  /\ logopen = TRUE
  /\ stdout = <<>>
  /\ stderr = <<>>
  /\ conf = << <<"#if !defined(__SLEPCCONF_H)\n">>, <<"#define __SLEPCCONF_H\n\n">> >>
  /\ vars = <<>>
  /\ cmake = <<>>
  /\ retval = Unbound
  /\ exitstatus = -1
  /\ guessname = UnboundStr /\ home = NoHome /\ exists = {} /\ guesses = <<>>
  /\ argv = {} /\ argdb = {} /\ pkgs = <<>> /\ pkidx = 0 /\ processed = <<>>

probe_vars == <<dirs, libs, functions, callbacks, di, li, d, l, flags, mangling,
                output, error, output0, output1, output2, trials>>
out_vars == <<log, logopen, stdout, stderr, conf, vars, cmake, retval, exitstatus>>
guess_vars == <<guessname, home, exists, guesses>>
env_vars == <<packagename, SLFLAG, cwd>>

\* --------------------------------------------------------------- actions
\* Package.GenerateGuesses(name): the answers of os.path.exists are the set E
GenerateGuesses ==
  /\ pc = "start"
  /\ \E name \in GuessNames, h \in Homes :
       \E E \in ExistingSets(name, h) :
         /\ guessname' = name
         /\ home' = h
         /\ exists' = E
         /\ guesses' = GenerateGuessesResult(name, h, E)
  /\ pc' = "guessed"
  /\ UNCHANGED <<drv_vars, env_vars, files, probe_vars, out_vars>>

\* Package.FortranLib is called: lines 154-157
FortranLibBegin ==
  /\ pc = "start"
  /\ \E ds \in DirLists, ls \in LibLists, sy \in SymbolSets :
       /\ dirs' = ds
       /\ libs' = ls
       /\ functions' = sy.functions
       /\ callbacks' = sy.callbacks
  /\ error' = <<>>
  /\ mangling' = <<>>
  /\ di' = 1 /\ li' = 1
  /\ pc' = "for"
  /\ UNCHANGED <<drv_vars, env_vars, files, d, l, flags, output, output0, output1, output2,
                 trials, out_vars, guess_vars>>

\* The loop heads of FortranLib (lines 158-166) and the first line of
\* FortranLink (107): the next pair is taken, or the loops are exhausted.
ForNext ==
  /\ pc = "for"
  /\ IF di <= Len(dirs) /\ li <= Len(libs)
     THEN /\ d' = dirs[di]
          /\ l' = libs[li]
          /\ flags' = Flags(dirs[di], libs[li], SLFLAG)
          /\ output0' = LinkerFlagsHeader(Flags(dirs[di], libs[li], SLFLAG))
          /\ pc' = "underscore"
     ELSE /\ d' = IF dirs # <<>> /\ libs = <<>> THEN dirs[Len(dirs)] ELSE d
          /\ pc' = "after"
          /\ UNCHANGED <<l, flags, output0>>
  /\ UNCHANGED <<drv_vars, env_vars, files, dirs, libs, functions, callbacks, di, li, mangling,
                 output, error, output1, output2, trials, out_vars, guess_vars>>

\* the record kept of one LinkWithOutput call
Trial(scheme, fs, cs, st) ==
  [scheme |-> scheme, functions |-> fs, callbacks |-> cs, flags |-> flags,
   at |-> <<di, li>>, status |-> st, result |-> LinkWithOutput(fs, cs, st)[1]]

\* FortranLink lines 109-117: the trial with a trailing underscore
TrialUnderscore ==
  /\ pc = "underscore"
  /\ \E st \in MakeStatuses :
       LET f == Underscored(functions)
           c == Underscored(callbacks)
           r == LinkWithOutput(f, c, st)
       IN /\ trials' = Append(trials, Trial("underscore", f, c, st))
          /\ output1' = UnderscoreTitle \o r[2]
          /\ IF r[1] # 0
             THEN /\ mangling' = <<"UNDERSCORE">>
                  /\ output' = UnderscoreTitle \o r[2]
                  /\ pc' = "linked"
             ELSE /\ pc' = "caps"
                  /\ UNCHANGED <<mangling, output>>
  /\ files' = FilesAfterLink(files, cwd)
  /\ UNCHANGED <<drv_vars, env_vars, dirs, libs, functions, callbacks, di, li, d, l, flags,
                 error, output0, output2, out_vars, guess_vars>>

\* the capital-names trial without its return on success
TrialCapsNoReturn ==
  /\ pc = "caps"
  /\ \E st \in MakeStatuses :
       LET f == Capitalized(functions)
           c == Capitalized(callbacks)
           r == LinkWithOutput(f, c, st)
       IN /\ trials' = Append(trials, Trial("caps", f, c, st))
          /\ output2' = CapitalTitle \o r[2]
          /\ pc' = "unmodified"
          /\ UNCHANGED <<mangling, output>>
  /\ files' = FilesAfterLink(files, cwd)
  /\ UNCHANGED <<drv_vars, env_vars, dirs, libs, functions, callbacks, di, li, d, l, flags,
                 error, output0, output1, out_vars, guess_vars>>

\* FortranLink lines 119-127: the trial with all-uppercase names
TrialCaps ==
  /\ pc = "caps"
  /\ \E st \in MakeStatuses :
       LET f == Capitalized(functions)
           c == Capitalized(callbacks)
           r == LinkWithOutput(f, c, st)
       IN /\ trials' = Append(trials, Trial("caps", f, c, st))
          /\ output2' = CapitalTitle \o r[2]
          /\ IF r[1] # 0
             THEN /\ mangling' = <<"CAPS">>
                  /\ output' = CapitalTitle \o r[2]
                  /\ pc' = "linked"
             ELSE /\ pc' = "unmodified"
                  /\ UNCHANGED <<mangling, output>>
  /\ files' = FilesAfterLink(files, cwd)
  /\ UNCHANGED <<drv_vars, env_vars, dirs, libs, functions, callbacks, di, li, d, l, flags,
                 error, output0, output1, out_vars, guess_vars>>

\* the unmodified-names trial returning the three transcripts without the
\* linker-flags line when it fails
TrialUnmodifiedNoHeader ==
  /\ pc = "unmodified"
  /\ \E st \in MakeStatuses :
       LET r == LinkWithOutput(functions, callbacks, st)
           output3 == UnmodifiedTitle \o r[2]
       IN /\ trials' = Append(trials, Trial("unmodified", functions, callbacks, st))
          /\ IF r[1] # 0
             THEN /\ mangling' = <<"STDCALL">>
                  /\ output' = output3
             ELSE /\ mangling' = <<>>
                  /\ output' = output1 \o output2 \o output3
  /\ pc' = "linked"
  /\ files' = FilesAfterLink(files, cwd)
  /\ UNCHANGED <<drv_vars, env_vars, dirs, libs, functions, callbacks, di, li, d, l, flags,
                 error, output0, output1, output2, out_vars, guess_vars>>

\* FortranLink lines 129-133: the trial with unmodified names, and the
\* return of the three transcripts when it fails too
TrialUnmodified ==
  /\ pc = "unmodified"
  /\ \E st \in MakeStatuses :
       LET r == LinkWithOutput(functions, callbacks, st)
           output3 == UnmodifiedTitle \o r[2]
       IN /\ trials' = Append(trials, Trial("unmodified", functions, callbacks, st))
          /\ IF r[1] # 0
             THEN /\ mangling' = <<"STDCALL">>
                  /\ output' = output3
             ELSE /\ mangling' = <<>>
                  /\ output' = output0 \o output1 \o output2 \o output3
  /\ pc' = "linked"
  /\ files' = FilesAfterLink(files, cwd)
  /\ UNCHANGED <<drv_vars, env_vars, dirs, libs, functions, callbacks, di, li, d, l, flags,
                 error, output0, output1, output2, out_vars, guess_vars>>

\* the loop positions after the pair (i, j)
NextDi(i, j) == IF j < Len(libs) THEN i ELSE i + 1
NextLi(i, j) == IF j < Len(libs) THEN j + 1 ELSE 1

\* lines 167-170 with the two break statements left out
AccumulateNoBreak ==
  /\ pc = "linked"
  /\ error' = error \o output
  /\ di' = NextDi(di, li)
  /\ li' = NextLi(di, li)
  /\ pc' = "for"
  /\ UNCHANGED <<drv_vars, env_vars, files, dirs, libs, functions, callbacks, d, l, flags,
                 mangling, output, output0, output1, output2, trials, out_vars,
                 guess_vars>>

\* lines 167-170 with error = output in place of error += output
AccumulateOverwrite ==
  /\ pc = "linked"
  /\ error' = output
  /\ IF mangling # <<>>
     THEN /\ pc' = "after"
          /\ UNCHANGED <<di, li>>
     ELSE /\ di' = NextDi(di, li)
          /\ li' = NextLi(di, li)
          /\ pc' = "for"
  /\ UNCHANGED <<drv_vars, env_vars, files, dirs, libs, functions, callbacks, d, l, flags,
                 mangling, output, output0, output1, output2, trials, out_vars,
                 guess_vars>>

\* FortranLib lines 167-170: FortranLink has returned (mangling, output)
Accumulate ==
  /\ pc = "linked"
  /\ error' = error \o output
  /\ IF mangling # <<>>
     THEN /\ pc' = "after"
          /\ UNCHANGED <<di, li>>
     ELSE /\ di' = NextDi(di, li)
          /\ li' = NextLi(di, li)
          /\ pc' = "for"
  /\ UNCHANGED <<drv_vars, env_vars, files, dirs, libs, functions, callbacks, d, l, flags,
                 mangling, output, output0, output1, output2, trials, out_vars,
                 guess_vars>>

\* name = self.packagename.upper()
name == upper(packagename)

\* the success branch writing the first directory and the first library set
\* to the CMake file in place of the loop variables d and l
FortranLibSuccessFirstPair ==
  /\ pc = "after"
  /\ mangling # <<>>
  /\ log' = LogWrite(log, output)
  /\ conf' = Append(conf, HeaderText(name, mangling))
  /\ vars' = Append(vars, VarsText(name, flags))
  /\ cmake' = cmake \o << CMakeSetText(name),
                          CMakeFindText(name, libname(libs[1]), dirs[1]) >>
  /\ retval' = flags
  /\ pc' = "returned"
  /\ UNCHANGED <<drv_vars, env_vars, files, probe_vars, logopen, stdout, stderr, exitstatus,
                 guess_vars>>

\* FortranLib lines 172-173 and 181-186: a scheme was found
FortranLibSuccess ==
  /\ pc = "after"
  /\ mangling # <<>>
  /\ log' = LogWrite(log, output)
  /\ conf' = Append(conf, HeaderText(name, mangling))
  /\ vars' = Append(vars, VarsText(name, flags))
  /\ cmake' = cmake \o << CMakeSetText(name), CMakeFindText(name, libname(l), d) >>
  /\ retval' = flags
  /\ pc' = "returned"
  /\ UNCHANGED <<drv_vars, env_vars, files, probe_vars, logopen, stdout, stderr, exitstatus,
                 guess_vars>>

ErrorUnable == <<"ERROR: Unable to link with library ">> \o name
ErrorDirs == <<"ERROR: In directories ">> \o Join(<<" ">>, dirs)
ErrorFlags == <<"ERROR: With flags ">> \o Join(<<" ">>, flags)
\* msg of Log.Exit('')
ExitMsg == <<"\nERROR: ">>
ExitSee == <<"ERROR: See \"">> \o <<"configure.log">> \o <<"\" file for details">>
UnboundLocalError ==
  <<"UnboundLocalError: local variable 'flags' referenced before assignment">>

\* the failure branch with a Log.Exit that returns to its caller
FortranLibFailureNoExit ==
  /\ pc = "after"
  /\ mangling = <<>>
  /\ flags # Unbound
  /\ log' = LogWrite(LogWrite(LogWrite(LogWrite(LogWrite(log, error), ErrorUnable),
                                       ErrorDirs), ErrorFlags), ExitMsg)
  /\ stdout' = PrintLine(PrintLine(PrintLine(PrintLine(stdout, ErrorUnable),
                                             ErrorDirs), ErrorFlags), ExitMsg)
  /\ conf' = Append(conf, HeaderText(name, mangling))
  /\ vars' = Append(vars, VarsText(name, flags))
  /\ cmake' = cmake \o << CMakeSetText(name), CMakeFindText(name, libname(l), d) >>
  /\ retval' = flags
  /\ pc' = "returned"
  /\ UNCHANGED <<drv_vars, env_vars, files, probe_vars, logopen, stderr, exitstatus, guess_vars>>

\* FortranLib lines 174-179 with Log.Println and Log.Exit: no scheme was found.
\* Line 178 reads flags: when no pair was tried the name is unbound and the
\* read raises, which ends the process with a traceback.
FortranLibFailure ==
  /\ pc = "after"
  /\ mangling = <<>>
  /\ IF flags = Unbound
     THEN /\ log' = LogWrite(LogWrite(LogWrite(log, error), ErrorUnable), ErrorDirs)
          /\ stdout' = PrintLine(PrintLine(stdout, ErrorUnable), ErrorDirs)
          /\ stderr' = Append(stderr, UnboundLocalError)
          /\ pc' = "raised"
          /\ UNCHANGED logopen
     ELSE /\ log' = LogWrite(LogWrite(LogWrite(LogWrite(LogWrite(log, error),
                       ErrorUnable), ErrorDirs), ErrorFlags), ExitMsg)
          /\ stdout' = PrintLine(PrintLine(PrintLine(PrintLine(stdout, ErrorUnable),
                       ErrorDirs), ErrorFlags), ExitMsg)
          /\ logopen' = FALSE
          /\ stderr' = Append(stderr, ExitSee)
          /\ pc' = "exited"
  /\ exitstatus' = 1
  /\ UNCHANGED <<drv_vars, env_vars, files, probe_vars, conf, vars, cmake, retval, guess_vars>>

Next ==
  \/ GenerateGuesses
  \/ FortranLibBegin
  \/ ForNext
  \/ TrialUnderscore
  \/ TrialCaps
  \/ TrialUnmodified
  \/ Accumulate
  \/ FortranLibSuccess
  \/ FortranLibFailure

Spec == Init /\ [][Next]_vars_all

\* ------------------------------------------------- the configure driver
\* checkpackages of configure.py, by packagename
checkpackages ==
  << <<"a","r","p","a","c","k">>, <<"b","l","o","p","e","x">>,
     <<"b","l","z","p","a","c","k">>, <<"f","e","a","s","t">>,
     <<"p","r","i","m","m","e">>, <<"t","r","l","a","n">>,
     <<"l","a","p","a","c","k">> >>

\* the positions in checkpackages of the packages in the order configure.py
\* constructs them: arpack, blzpack, trlan, primme, feast, blopex, lapack
ConstructionOrder == <<1, 3, 6, 5, 4, 2, 7>>

\* a package object before its arguments are processed
NewPackage ==
  [havepackage |-> 0, packagedir |-> <<>>, packagelibs |-> <<>>,
   hasdownload |-> FALSE, downloadpackage |-> FALSE, packageurl |-> <<>>]

\* the option names 'with-'+name+'-dir', 'with-'+name+'-flags', 'with-'+name
WithDir(pk) == <<"with-">> \o pk \o <<"-dir">>
WithFlags(pk) == <<"with-">> \o pk \o <<"-flags">>
With(pk) == <<"with-">> \o pk
\* the option name 'download-'+name
Download(pk) == <<"download-">> \o pk

Opt(k, v) == [key |-> k, value |-> v]

\* the command lines configure is run with
ArgLines ==
  { {},
    { Opt(With(checkpackages[1]), <<"1">>) },
    { Opt(WithDir(checkpackages[1]), <<"/opt/foo/lib">>),
      Opt(WithFlags(checkpackages[5]), <<"-","l","f","o","o",",","-","l","b">>) },
    { Opt(WithDir(checkpackages[1]), <<"/opt/foo/lib">>),
      Opt(With(checkpackages[2]), <<"1">>),
      Opt(Download(checkpackages[2]), <<"0">>),
      Opt(Download(checkpackages[4]), <<"1">>) },
    { Opt(With(checkpackages[4]), <<"0">>),
      Opt(Download(checkpackages[6]), <<"http://host/trlan.tar.gz">>) },
    { Opt(With(checkpackages[1]), <<"1">>),
      Opt(WithFlags(checkpackages[7]), <<"-","l","l","a">>) } }

\* the existing paths of the machine configure runs on
DriverExists == { {}, { PathJoin2(opt, <<"lib">>) } }

\* whether the argument database holds the option
Found(db, k) == \E o \in db : o.key = k
\* the value given for the option
ValueOf(db, k) == (CHOOSE o \in db : o.key = k).value
\* the argument database once the option is popped
Without(db, k) == {o \in db : o.key # k}

\* argdb.PopPath and argdb.PopString: the value and whether the option was given
PopPath(db, k) ==
  [string |-> IF Found(db, k) THEN ValueOf(db, k) ELSE <<>>, found |-> Found(db, k)]
PopString(db, k) ==
  [string |-> IF Found(db, k) THEN ValueOf(db, k) ELSE <<>>, found |-> Found(db, k)]
\* argdb.PopBool: whether the option was given with a true value
PopBool(db, k) == Found(db, k) /\ ValueOf(db, k) # <<"0">>
\* argdb.PopUrl: the url, the flag, and whether the option was given
PopUrl(db, k) ==
  LET v == IF Found(db, k) THEN ValueOf(db, k) ELSE <<>> IN
  [url |-> IF v \in {<<"0">>, <<"1">>} THEN <<>> ELSE v,
   flag |-> Found(db, k) /\ v # <<"0">>,
   found |-> Found(db, k)]

RECURSIVE split(_, _)
\* str.split(sep) for a one-character separator
split(s, sep) ==
  IF \A i \in 1..Len(s) : s[i] # sep THEN << s >>
  ELSE LET i == CHOOSE j \in 1..Len(s) :
                  s[j] = sep /\ \A m \in 1..(j - 1) : s[m] # sep
       IN << SubSeq(s, 1, i - 1) >> \o split(SubSeq(s, i + 1, Len(s)), sep)

\* Package.ProcessArgs of the package constructed at turn pkidx
ProcessArgs ==
  /\ pc = "args"
  /\ LET pk == checkpackages[ConstructionOrder[pkidx]]
         p0 == pkgs[ConstructionOrder[pkidx]]
         dir == PopPath(argdb, WithDir(pk))
         db1 == Without(argdb, WithDir(pk))
         p1 == IF dir.found
               THEN [p0 EXCEPT !.packagedir = dir.string, !.havepackage = 1]
               ELSE p0
         str == PopString(db1, WithFlags(pk))
         db2 == Without(db1, WithFlags(pk))
         p2 == IF str.found
               THEN [p1 EXCEPT !.packagelibs = split(str.string, ","),
                               !.havepackage = 1]
               ELSE p1
         p3 == IF PopBool(db2, With(pk)) THEN [p2 EXCEPT !.havepackage = 1] ELSE p2
     IN /\ pkgs' = [pkgs EXCEPT ![ConstructionOrder[pkidx]] = p3]
        /\ argdb' = Without(db2, With(pk))
  /\ pc' = "downloadargs"
  /\ UNCHANGED <<argv, pkidx, processed, env_vars, files, probe_vars, out_vars,
                 guess_vars>>

\* Package.ProcessDownloadArgs of the package constructed at turn pkidx; the
\* next package is constructed after it, and the loop starts after the last
ProcessDownloadArgs ==
  /\ pc = "downloadargs"
  /\ LET pk == checkpackages[ConstructionOrder[pkidx]]
         r == PopUrl(argdb, Download(pk))
     IN /\ pkgs' = [pkgs EXCEPT ![ConstructionOrder[pkidx]] =
                      IF r.found
                      THEN [@ EXCEPT !.packageurl = r.url, !.hasdownload = TRUE,
                                     !.downloadpackage = r.flag]
                      ELSE @]
        /\ argdb' = Without(argdb, Download(pk))
  /\ IF pkidx < Len(ConstructionOrder)
     THEN pkidx' = pkidx + 1 /\ pc' = "args"
     ELSE pkidx' = 1 /\ pc' = "driver"
  /\ UNCHANGED <<argv, processed, env_vars, files, probe_vars, out_vars, guess_vars>>

\* the symbols a package's Check asks FortranLib to link
CheckFunctions == << <<"f","s">> >>
\* the library list a package's Check tries when no flags were given
CheckLibs(pk) == << << <<"-","l">> \o pk >> >>

\* what Process does when it neither checks nor installs
ProcessNothing ==
  /\ pkidx' = pkidx + 1
  /\ pc' = "driver"
  /\ UNCHANGED stdout

\* Process with the presence mark looked at before the download attribute
ProcessPresenceFirst ==
  /\ pc = "driver"
  /\ pkidx <= Len(checkpackages)
  /\ packagename' = checkpackages[pkidx]
  /\ LET p == pkgs[pkidx]
         NAME == upper(checkpackages[pkidx])
         line == LogWrite(log, <<"====">>)
         ran == IF p.havepackage = 1 THEN "Check"
                ELSE IF p.hasdownload /\ p.downloadpackage THEN "Install"
                ELSE "none"
     IN /\ processed' = Append(processed, [pkg |-> checkpackages[pkidx], ran |-> ran])
        /\ IF ran = "Install"
           THEN /\ stdout' = PrintLine(stdout, <<"Installing ">> \o NAME \o <<"...">>)
                /\ log' = LogWrite(line, <<"Installing ">> \o NAME \o <<"...">>)
                /\ pc' = "install"
                /\ UNCHANGED pkidx
           ELSE IF ran = "Check"
           THEN /\ stdout' = PrintLine(stdout, <<"Checking ">> \o NAME \o <<" library...">>)
                /\ log' = LogWrite(line, <<"Checking ">> \o NAME \o <<" library...">>)
                /\ pc' = "check"
                /\ UNCHANGED pkidx
           ELSE log' = line /\ ProcessNothing
  /\ UNCHANGED <<argv, argdb, pkgs, SLFLAG, cwd, files, probe_vars, logopen, stderr,
                 conf, vars, cmake, retval, exitstatus, guess_vars>>

\* one turn of the loop over checkpackages: Package.Process of the next package
Process ==
  /\ pc = "driver"
  /\ pkidx <= Len(checkpackages)
  /\ packagename' = checkpackages[pkidx]
  /\ LET p == pkgs[pkidx]
         NAME == upper(checkpackages[pkidx])
         line == LogWrite(log, <<"====">>)
         ran == IF p.hasdownload
                THEN IF p.downloadpackage THEN "Install" ELSE "none"
                ELSE IF p.havepackage = 1 THEN "Check" ELSE "none"
     IN /\ processed' = Append(processed, [pkg |-> checkpackages[pkidx], ran |-> ran])
        /\ IF ran = "Install"
           THEN /\ stdout' = PrintLine(stdout, <<"Installing ">> \o NAME \o <<"...">>)
                /\ log' = LogWrite(line, <<"Installing ">> \o NAME \o <<"...">>)
                /\ pc' = "install"
                /\ UNCHANGED pkidx
           ELSE IF ran = "Check"
           THEN /\ stdout' = PrintLine(stdout, <<"Checking ">> \o NAME \o <<" library...">>)
                /\ log' = LogWrite(line, <<"Checking ">> \o NAME \o <<" library...">>)
                /\ pc' = "check"
                /\ UNCHANGED pkidx
           ELSE log' = line /\ ProcessNothing
  /\ UNCHANGED <<argv, argdb, pkgs, SLFLAG, cwd, files, probe_vars, logopen, stderr,
                 conf, vars, cmake, retval, exitstatus, guess_vars>>

\* a package's Check: the given directory or the guesses, the given flags or
\* the package's own library list, handed to FortranLib (which starts its search)
Check ==
  /\ pc = "check"
  /\ LET p == pkgs[pkidx]
         gs == GenerateGuessesResult(packagename, home, exists)
     IN /\ IF p.packagedir # <<>>
           THEN dirs' = << p.packagedir >> /\ UNCHANGED <<guessname, guesses>>
           ELSE dirs' = gs /\ guessname' = packagename /\ guesses' = gs
        /\ libs' = IF p.packagelibs # <<>> THEN << p.packagelibs >>
                   ELSE CheckLibs(packagename)
  /\ functions' = CheckFunctions
  /\ callbacks' = <<>>
  /\ error' = <<>>
  /\ mangling' = <<>>
  /\ di' = 1 /\ li' = 1
  /\ d' = UnboundStr /\ l' = Unbound /\ flags' = Unbound
  /\ output' = UnboundStr
  /\ output0' = UnboundStr /\ output1' = UnboundStr /\ output2' = UnboundStr
  /\ trials' = <<>>
  /\ pc' = "for"
  /\ UNCHANGED <<drv_vars, env_vars, files, out_vars, home, exists>>

\* FortranLib has returned to Check, which returns to Process and the loop
CheckReturn ==
  /\ pc = "returned"
  /\ pkidx' = pkidx + 1
  /\ pc' = "driver"
  /\ UNCHANGED <<argv, argdb, pkgs, processed, env_vars, files, probe_vars, out_vars,
                 guess_vars>>

\* a package's Install, which returns to Process and the loop
Install ==
  /\ pc = "install"
  /\ pkidx' = pkidx + 1
  /\ pc' = "driver"
  /\ UNCHANGED <<argv, argdb, pkgs, processed, env_vars, files, probe_vars, out_vars,
                 guess_vars>>

\* configure.py up to the construction of the first package
InitDriver ==
  /\ pc = "args"
  /\ argv \in ArgLines
  /\ argdb = argv
  /\ pkgs = [i \in 1..Len(checkpackages) |-> NewPackage]
  /\ pkidx = 1
  /\ processed = <<>>
  /\ packagename = UnboundStr
  /\ SLFLAG \in SLFlags
  /\ cwd = slepcdir
  /\ files = {}
  /\ dirs = <<>> /\ libs = <<>> /\ functions = <<>> /\ callbacks = <<>>
  /\ di = 0 /\ li = 0
  /\ d = UnboundStr /\ l = Unbound /\ flags = Unbound
  /\ mangling = UnboundStr /\ output = UnboundStr /\ error = UnboundStr
  /\ output0 = UnboundStr /\ output1 = UnboundStr /\ output2 = UnboundStr
  /\ trials = <<>>
  /\ log = << <<"====", "\n">> >>
  /\ logopen = TRUE
  /\ stdout = <<>>
  /\ stderr = <<>>
  /\ conf = << <<"#if !defined(__SLEPCCONF_H)\n">>, <<"#define __SLEPCCONF_H\n\n">> >>
  /\ vars = <<>>
  /\ cmake = <<>>
  /\ retval = Unbound
  /\ exitstatus = -1
  /\ guessname = UnboundStr /\ home \in Homes /\ exists \in DriverExists
  /\ guesses = <<>>

NextDriver ==
  \/ ProcessArgs
  \/ ProcessDownloadArgs
  \/ Process
  \/ Check
  \/ ForNext
  \/ TrialUnderscore
  \/ TrialCaps
  \/ TrialUnmodified
  \/ Accumulate
  \/ FortranLibSuccess
  \/ FortranLibFailure
  \/ CheckReturn
  \/ Install

SpecDriver == InitDriver /\ [][NextDriver]_vars_all

\* ===================================================== properties checked
\* substring test on strings, and the number of occurrences of one atom
Contains(text, pat) ==
  \E i \in 0..(Len(text) - Len(pat)) : SubSeq(text, i + 1, i + Len(pat)) = pat
CountAtom(text, a) == Cardinality({i \in 1..Len(text) : text[i] = a})

Last(s) == s[Len(s)]
LogText == Flatten(log)
StdoutText == Flatten(stdout)

\* the trials made for the pair at loop positions p, in the order made
TrialsAt(p) == SelectSeq(trials, LAMBDA t : t.at = p)

\* the scheme name reported for each trial, and the order of the trials
SchemeOrder == <<"underscore", "caps", "unmodified">>
SchemeName(sch) ==
  CASE sch = "underscore" -> <<"UNDERSCORE">>
    [] sch = "caps" -> <<"CAPS">>
    [] sch = "unmodified" -> <<"STDCALL">>
ManglingNames == { <<"UNDERSCORE">>, <<"CAPS">>, <<"STDCALL">> }

RECURSIVE Collapse(_)
\* the pairs attempted, in order: consecutive trials of one pair count once
Collapse(ps) ==
  IF Len(ps) <= 1 THEN ps
  ELSE IF ps[1] = ps[2] THEN Collapse(Tail(ps))
  ELSE <<ps[1]>> \o Collapse(Tail(ps))
AttemptedPairs == Collapse([k \in 1..Len(trials) |-> trials[k].at])

\* directories outer, library sets inner
PairOrder ==
  [k \in 1..(Len(dirs) * Len(libs)) |->
     <<((k - 1) \div Len(libs)) + 1, ((k - 1) % Len(libs)) + 1>>]

\* C1: FortranLink makes its trials in the order underscore, caps,
\* unmodified; no trial follows a successful one; the scheme it returns is
\* that of the successful trial (none when all three failed); a CAPS result
\* means exactly two trials, the first failed, and no unmodified trial.
C1_TrialOrder ==
  /\ \A k \in 1..Len(trials) :
       LET ts == TrialsAt(trials[k].at) IN
         /\ Len(ts) <= 3
         /\ \A j \in 1..Len(ts) : ts[j].scheme = SchemeOrder[j]
         /\ \A j \in 1..(Len(ts) - 1) : ts[j].result = 0
  /\ pc = "linked" =>
       LET ts == TrialsAt(<<di, li>>) IN
         /\ ts # <<>>
         /\ IF Last(ts).result # 0
            THEN mangling = SchemeName(Last(ts).scheme)
            ELSE mangling = <<>> /\ Len(ts) = 3
         /\ mangling = <<"CAPS">> =>
              /\ Len(ts) = 2
              /\ ts[1].scheme = "underscore" /\ ts[1].result = 0
              /\ ts[2].scheme = "caps" /\ ts[2].result # 0

C1_Witness ==
  /\ pc = "linked"
  /\ mangling = <<"CAPS">>
  /\ Len(TrialsAt(<<di, li>>)) = 2
  /\ TrialsAt(<<di, li>>)[1].result = 0

\* C2: FortranLib tries the pairs with directories as the outer loop and
\* library sets as the inner loop; only the last trial made can be a
\* successful one, so no trial follows the first working pair; what it
\* returns and keeps in d and l belongs to that pair.
C2_FirstWorkingPair ==
  /\ Len(AttemptedPairs) <= Len(PairOrder)
  /\ \A k \in 1..Len(AttemptedPairs) : AttemptedPairs[k] = PairOrder[k]
  /\ \A k \in 1..(Len(trials) - 1) : trials[k].result = 0
  /\ pc = "returned" =>
       /\ trials # <<>>
       /\ Last(trials).result # 0
       /\ d = dirs[Last(trials).at[1]]
       /\ l = libs[Last(trials).at[2]]
       /\ retval = Last(trials).flags

C2_Witness ==
  /\ pc = "returned"
  /\ Len(dirs) = 2 /\ Len(libs) = 2
  /\ Last(trials).at = <<2, 1>>

\* the transcript of the k-th trial as it appears in a failed search
TrialTitle(sch) ==
  CASE sch = "underscore" -> <<"\n====== With underscore Fortran names\n">>
    [] sch = "caps" -> <<"\n====== With capital Fortran names\n">>
    [] sch = "unmodified" -> <<"\n====== With unmodified Fortran names\n">>
TrialText(t) == TrialTitle(t.scheme) \o Code(t.functions, t.callbacks) \o MakeOutput(t.status)
BlockHead(t) ==
  IF t.scheme = "underscore"
  THEN <<"\n=== With linker flags: ">> \o Join(<<" ">>, t.flags)
  ELSE <<>>
ExpectedTranscript ==
  Flatten([k \in 1..Len(trials) |-> BlockHead(trials[k]) \o TrialText(trials[k])])

\* C3: when the search ends without a working pair the run halts with a
\* non-zero status and FortranLib does not return; every pair of the nested
\* loops was attempted with its three schemes; the log holds the transcript
\* once, with one '=== With linker flags' block per attempted pair, in the
\* order attempted.  A call that returns had a successful trial.
C3_FailureTranscript ==
  /\ pc \in {"exited", "raised"} =>
       /\ exitstatus # 0
       /\ retval = Unbound
       /\ \A k \in 1..Len(trials) : trials[k].result = 0
       /\ AttemptedPairs = PairOrder
       /\ Len(trials) = 3 * Len(PairOrder)
       /\ Cardinality({k \in 1..Len(log) : log[k] = ExpectedTranscript \o <<"\n">>}) = 1
       /\ CountAtom(LogText, "\n=== With linker flags: ") = Len(AttemptedPairs)
       /\ CountAtom(LogText, "\n====== With underscore Fortran names\n") = Len(AttemptedPairs)
       /\ CountAtom(LogText, "\n====== With capital Fortran names\n") = Len(AttemptedPairs)
       /\ CountAtom(LogText, "\n====== With unmodified Fortran names\n") = Len(AttemptedPairs)
  /\ pc = "returned" => \E k \in 1..Len(trials) : trials[k].result # 0

C3_Witness ==
  /\ pc = "exited"
  /\ Len(AttemptedPairs) >= 3
  /\ Len(trials) = 3 * Len(AttemptedPairs)

\* C4: after a FortranLib call that succeeds, the log contains the linker
\* flags and the transcript of every attempt made, the failed ones included.
C4_LogHasAllAttempts ==
  pc = "returned" =>
    \A k \in 1..Len(trials) :
      /\ Contains(LogText, <<"\n=== With linker flags: ">> \o Join(<<" ">>, trials[k].flags))
      /\ Contains(LogText, TrialText(trials[k]))

\* C5: on total failure the run ends with a non-zero exit status after a
\* console error that names the upper-cased package, the directories tried
\* and every flag set attempted.
C5_ErrorNamesAllFlags ==
  pc \in {"exited", "raised"} =>
    /\ exitstatus # 0
    /\ Contains(StdoutText, upper(packagename))
    /\ Contains(StdoutText, <<"ERROR: In directories ">> \o Join(<<" ">>, dirs))
    /\ Contains(StdoutText, <<"ERROR: With flags ">>)
    /\ \A k \in 1..Len(trials) : Contains(StdoutText, Join(<<" ">>, trials[k].flags))

\* C6: after every LinkWithOutput call the file checklink.c created in
\* tmpdir does not exist.
C6_TempFileRemoved ==
  trials # <<>> => <<tmpdir, "checklink.c">> \notin files

\* C7: the list GenerateGuesses returns starts with the empty string and
\* every other element is a path whose existence check succeeded.
C7_GuessesExist ==
  pc = "guessed" =>
    /\ guesses # <<>>
    /\ guesses[1] = <<>>
    /\ \A k \in 2..Len(guesses) : guesses[k] \in exists

\* a name equal to its lower-case form: every candidate with the name in it
\* occurs twice; one of them exists and one does not
C7_Witness ==
  /\ pc = "guessed"
  /\ guessname = <<"a","b">>
  /\ exists = { <<"/opt", "/", "a", "b">> }
  /\ Len(guesses) = 3

\* the pair of the successful trial
FoundDir == dirs[Last(trials).at[1]]
FoundLibs == libs[Last(trials).at[2]]

\* C8 as stated: the resolved flags are '-L'+d followed by l for a non-empty
\* d, and l alone for the empty d, whatever the shared-library flag is, and
\* the build-variable line holds them.
C8_FlagsDashLOnly ==
  pc = "returned" =>
    LET expected == IF FoundDir # <<>> THEN << <<"-L">> \o FoundDir >> \o FoundLibs
                    ELSE FoundLibs
    IN /\ retval = expected
       /\ Last(vars) = upper(packagename) \o <<"_LIB = ">> \o Join(<<" ">>, expected) \o <<"\n">>

\* C8 amended: as C8, except that for a non-empty d and a shared-library
\* flag containing 'rpath' the flags start with that flag joined to d.
C8_FlagsWithRpath ==
  pc = "returned" =>
    LET dashL == << <<"-L">> \o FoundDir >> \o FoundLibs
        expected == IF FoundDir = <<>> THEN FoundLibs
                    ELSE IF \E i \in 1..Len(SLFLAG) : SLFLAG[i] = "-Wl,-rpath,"
                         THEN << SLFLAG \o FoundDir >> \o dashL
                         ELSE dashL
    IN /\ retval = expected
       /\ Len(vars) = 1
       /\ Last(vars) = upper(packagename) \o <<"_LIB = ">> \o Join(<<" ">>, expected) \o <<"\n">>

C8_Witness ==
  /\ pc = "returned"
  /\ FoundDir = <<"/opt/foo/lib">>
  /\ SLFLAG = <<"-Wl,-rpath,">>
  /\ Len(retval) = 3

\* the header fragment for package NAME and mangling m
HeaderFragment(m) ==
  <<"#ifndef SLEPC_HAVE_">> \o upper(packagename) \o <<"\n#define SLEPC_HAVE_">>
    \o upper(packagename) \o <<" 1\n#define SLEPC_">> \o upper(packagename)
    \o <<"_HAVE_">> \o m \o <<" 1\n#endif\n\n">>

\* C9: a successful call writes exactly one header fragment, one
\* build-variable line and one library-finder fragment; the header fragment
\* defines SLEPC_HAVE_<PKG> and SLEPC_<PKG>_HAVE_<scheme of the successful
\* trial>; nothing is written unless the call returns, and every fragment in
\* the header names one of UNDERSCORE, CAPS, STDCALL.
C9_OneFragment ==
  /\ \A k \in 3..Len(conf) : \E m \in ManglingNames : conf[k] = HeaderFragment(m)
  /\ pc # "returned" => Len(conf) = 2 /\ vars = <<>> /\ cmake = <<>>
  /\ pc = "returned" =>
       /\ Len(conf) = 3
       /\ Last(trials).result # 0
       /\ conf[3] = HeaderFragment(SchemeName(Last(trials).scheme))
       /\ Len(vars) = 1
       /\ Len(cmake) = 2
       /\ CountAtom(Flatten(cmake), "foreach (libname ") = 1

C9_Witness ==
  /\ pc = "returned"
  /\ Last(trials).scheme = "unmodified"
  /\ conf[3] = HeaderFragment(<<"STDCALL">>)

\* C10: the foreach list of the CMake fragment holds, for every flag
\* '-l<base>' of the successful library set, exactly <base>, and the HINTS
\* directory is the directory of the successful trial.
C10_CMakeBaseNames ==
  pc = "returned" =>
    LET bases == [i \in 1..Len(FoundLibs) |-> SubSeq(FoundLibs[i], 3, Len(FoundLibs[i]))]
    IN /\ Contains(Last(cmake), <<"foreach (libname ">> \o Join(<<" ">>, bases) \o <<")\n">>)
       /\ Contains(Last(cmake), <<"  find_library (${LIBNAME}LIB ${libname} HINTS ">> \o FoundDir \o <<")\n">>)

\* C11: when the three trials of FortranLink fail it returns no scheme and
\* the text made of the linker-flags line, the underscore, the capital and
\* the unmodified transcript in that order; the scheme it returns is always
\* UNDERSCORE, CAPS, STDCALL or none, and a successful unmodified trial is
\* reported as STDCALL.
C11_FailureReport ==
  pc = "linked" =>
    LET ts == TrialsAt(<<di, li>>) IN
      /\ mangling \in ManglingNames \cup {<<>>}
      /\ (mangling = <<>>) = (Len(ts) = 3 /\ \A j \in 1..3 : ts[j].result = 0)
      /\ mangling = <<>> =>
           output = <<"\n=== With linker flags: ">> \o Join(<<" ">>, flags)
                      \o TrialText(ts[1]) \o TrialText(ts[2]) \o TrialText(ts[3])
      /\ (Last(ts).scheme = "unmodified" /\ Last(ts).result # 0) =
           (mangling = <<"STDCALL">>)

C11_Witness ==
  /\ pc = "linked"
  /\ mangling = <<>>
  /\ Len(TrialsAt(<<di, li>>)) = 3
  /\ Len(flags) >= 2

\* the candidate list stated position by position: ten paths per prefix,
\* <prefix>/lib first, then three paths for each spelling of the name
GuessPrefixes == IF home = NoHome THEN << <<"/usr/local">>, <<"/opt">> >>
                 ELSE << home, <<"/usr/local">>, <<"/opt">> >>
GuessSpellings == << guessname, upper(guessname), lower(guessname) >>
GuessCandidate(k) ==
  LET pre == GuessPrefixes[((k - 1) \div 10) + 1]
      o == (k - 1) % 10
      sp == GuessSpellings[((o - 1) \div 3) + 1]
      shape == (o - 1) % 3
  IN IF o = 0 THEN pre \o <<"/", "lib">>
     ELSE IF shape = 0 THEN pre \o <<"/">> \o sp
     ELSE IF shape = 1 THEN pre \o <<"/">> \o sp \o <<"/", "lib">>
     ELSE pre \o <<"/", "lib", "/">> \o sp
GuessCandidates == [k \in 1..(10 * Len(GuessPrefixes)) |-> GuessCandidate(k)]

\* C15: after the leading empty string, the list GenerateGuesses returns is
\* the candidate list (prefixes HOME when set, /usr/local, /opt; per prefix
\* <prefix>/lib, then for the name as given, upper-cased, lower-cased the
\* paths <prefix>/<d>, <prefix>/<d>/lib, <prefix>/lib/<d>) with the
\* non-existent entries left out: the order is kept and an existing path that
\* occurs twice is returned twice.
C15_GuessOrder ==
  pc = "guessed" =>
    guesses = << <<>> >> \o SelectSeq(GuessCandidates, LAMBDA q : q \in exists)

\* two existing paths of different prefixes and spellings, one of them twice
\* in the candidate list
C15_Witness ==
  /\ pc = "guessed"
  /\ guessname = <<"A","B">>
  /\ home = <<"/home/u">>
  /\ exists = { <<"/opt", "/", "a", "b">>, <<"/home/u", "/", "lib", "/", "A", "B">> }
  /\ guesses = << <<>>, <<"/home/u", "/", "lib", "/", "A", "B">>,
                  <<"/home/u", "/", "lib", "/", "A", "B">>, <<"/opt", "/", "a", "b">> >>

\* the names of one scheme trial
Relabel(sch, names) ==
  [i \in 1..Len(names) |->
     CASE sch = "underscore" -> Append(names[i], "_")
       [] sch = "caps" -> [j \in 1..Len(names[i]) |-> UpperChar(names[i][j])]
       [] sch = "unmodified" -> names[i]]

\* C16: every scheme trial is made with the functions and the callbacks of
\* the call relabelled by the same scheme and with the flag list of its
\* pair; a trial succeeds exactly when the build tool's exit status is zero;
\* on failure and on success the text it returns is the generated source
\* followed by the captured output.
C16_Relabelling ==
  /\ \A k \in 1..Len(trials) :
       LET t == trials[k] IN
         /\ t.functions = Relabel(t.scheme, functions)
         /\ t.callbacks = Relabel(t.scheme, callbacks)
         /\ (t.result # 0) = (t.status = 0)
         /\ t.at = <<di, li>> => t.flags = flags
         /\ \A j \in 1..Len(trials) : trials[j].at = t.at => trials[j].flags = t.flags
  /\ pc = "caps" =>
       /\ Last(trials).status # 0
       /\ output1 = TrialText(Last(trials))
  /\ pc = "unmodified" =>
       /\ Last(trials).status # 0
       /\ output2 = TrialText(Last(trials))
  /\ (pc = "linked" /\ mangling # <<>>) =>
       /\ Last(trials).status = 0
       /\ output = TrialText(Last(trials))

C16_Witness ==
  /\ pc = "linked"
  /\ mangling = <<"STDCALL">>
  /\ callbacks # <<>>
  /\ Len(flags) >= 2
  /\ Len(TrialsAt(<<di, li>>)) = 3

\* a flag without its leading '-' and 'l' characters
Stripped(fl) ==
  LET keep == {i \in 1..Len(fl) : fl[i] \notin {"-", "l"}}
  IN IF keep = {} THEN <<>>
     ELSE SubSeq(fl, CHOOSE i \in keep : \A j \in keep : i <= j, Len(fl))

\* C17: when FortranLib returns, the last trial made is a successful one and
\* the returned flags, the flags of the '<PKG>_LIB' line, the library names
\* and the HINTS directory of the CMake fragment all come from the pair of
\* that trial; the mangling in the header is the scheme of that trial.
C17_SamePair ==
  pc = "returned" =>
    LET t == Last(trials)
        fd == dirs[t.at[1]]
        fl == libs[t.at[2]]
    IN /\ t.result # 0
       /\ \A k \in 1..(Len(trials) - 1) : trials[k].at # t.at => trials[k].result = 0
       /\ retval = t.flags
       /\ Len(t.flags) >= Len(fl)
       /\ SubSeq(t.flags, Len(t.flags) - Len(fl) + 1, Len(t.flags)) = fl
       /\ (fd # <<>>) = (<<"-L">> \o fd \in Range(t.flags))
       /\ Contains(Last(vars), <<"_LIB = ">> \o Join(<<" ">>, t.flags) \o <<"\n">>)
       /\ Contains(Last(cmake), <<"foreach (libname ">>
                     \o Join(<<" ">>, [i \in 1..Len(fl) |-> Stripped(fl[i])]) \o <<")\n">>)
       /\ Contains(Last(cmake),
                   <<"  find_library (${LIBNAME}LIB ${libname} HINTS ">> \o fd \o <<")\n">>)
       /\ Contains(Last(conf), <<"_HAVE_">> \o SchemeName(t.scheme) \o <<" 1\n#endif\n\n">>)

C17_Witness ==
  /\ pc = "returned"
  /\ Last(trials).at = <<2, 2>>
  /\ dirs[1] # dirs[2]
  /\ libs[1] # libs[2]

\* the states in which configure has stopped: sys.exit or an uncaught exception
Halted == {"exited", "raised"}

\* C13: when FortranLib's search is exhausted for a package, the next step
\* halts the run with the header, build-variable and CMake outputs as they
\* were; these outputs are only ever written by the success of a search that
\* found a scheme; the driver takes the packages in the order of
\* checkpackages, one Process call each, and takes no step once halted.
C13_NoPartialSuccess ==
  [][ /\ pc \notin Halted
      /\ (pc = "after" /\ mangling = <<>>)
           => (pc' \in Halted /\ conf' = conf /\ vars' = vars /\ cmake' = cmake
               /\ processed' = processed /\ pkidx' = pkidx)
      /\ (conf' # conf \/ vars' # vars \/ cmake' # cmake)
           => (pc = "after" /\ mangling # <<>>)
      /\ processed' # processed
           => /\ Len(processed) < Len(checkpackages)
              /\ Len(processed') = Len(processed) + 1
              /\ SubSeq(processed', 1, Len(processed)) = processed
              /\ processed'[Len(processed')].pkg = checkpackages[Len(processed) + 1]
    ]_vars_all

\* a run halted by a failed search after an earlier package was found and
\* written, with later packages of checkpackages never processed
C13_Witness ==
  /\ pc = "exited"
  /\ mangling = <<>>
  /\ Len(processed) > 1
  /\ Len(processed) < Len(checkpackages)
  /\ processed[1].ran = "Check"
  /\ processed[Len(processed)].ran = "Check"
  /\ Len(conf) = 3 /\ Len(vars) = 1 /\ Len(cmake) = 2

\* whether the option was on the command line, and the value it had
Given(k) == \E o \in argv : o.key = k
GivenValue(k) == (CHOOSE o \in argv : o.key = k).value

\* the pieces of a string between its commas, from the comma positions
Cuts(s) == {0, Len(s) + 1} \cup {i \in 1..Len(s) : s[i] = ","}
NthCut(s, n) == CHOOSE c \in Cuts(s) : Cardinality({x \in Cuts(s) : x < c}) = n - 1
Pieces(s) ==
  [n \in 1..(Cardinality(Cuts(s)) - 1) |->
     SubSeq(s, NthCut(s, n) + 1, NthCut(s, n + 1) - 1)]

\* whether ProcessArgs of the package at position i of checkpackages has run
ArgsProcessed(i) ==
  LET turn == CHOOSE n \in 1..Len(ConstructionOrder) : ConstructionOrder[n] = i IN
  IF pc = "args" THEN turn < pkidx
  ELSE IF pc = "downloadargs" THEN turn <= pkidx
  ELSE TRUE

\* the number of Process calls so far that ran the package's check
ChecksRun == Cardinality({k \in 1..Len(processed) : processed[k].ran = "Check"})

\* C14: once ProcessArgs has run for a package, the package is marked present
\* if the command line gave its directory, its flags or its enabling switch,
\* and holds the given directory and the comma-split flags, for the rest of
\* the run; every Process call ran the check exactly when the package was
\* marked present and had no download attribute, the installation exactly
\* when it had a true download attribute, and nothing otherwise; the output
\* files hold no more than one fragment per check that was run.
C14_ProcessArgsAndProcess ==
  /\ \A i \in 1..Len(checkpackages) :
       ArgsProcessed(i) =>
         LET pk == checkpackages[i] IN
         /\ ( \/ Given(WithDir(pk))
              \/ Given(WithFlags(pk))
              \/ (Given(With(pk)) /\ GivenValue(With(pk)) # <<"0">>) )
              => pkgs[i].havepackage = 1
         /\ Given(WithDir(pk)) => pkgs[i].packagedir = GivenValue(WithDir(pk))
         /\ Given(WithFlags(pk))
              => pkgs[i].packagelibs = Pieces(GivenValue(WithFlags(pk)))
  /\ \A k \in 1..Len(processed) :
       /\ processed[k].ran \in {"Check", "Install", "none"}
       /\ processed[k].ran = "Check"
            <=> (pkgs[k].havepackage = 1 /\ ~pkgs[k].hasdownload)
       /\ processed[k].ran = "Install"
            <=> (pkgs[k].hasdownload /\ pkgs[k].downloadpackage)
  /\ Len(conf) - 2 <= ChecksRun
  /\ Len(vars) <= ChecksRun
  /\ Len(cmake) <= 2 * ChecksRun

\* the loop has finished over a command line that made one package be
\* checked, one marked present but skipped for its false download attribute,
\* one installed, and the rest left alone
C14_Witness ==
  /\ pc = "driver"
  /\ pkidx = Len(checkpackages) + 1
  /\ Len(processed) = Len(checkpackages)
  /\ processed[1].ran = "Check" /\ pkgs[1].packagedir # <<>>
  /\ processed[2].ran = "none" /\ pkgs[2].havepackage = 1
  /\ processed[4].ran = "Install"
  /\ processed[7].ran = "none" /\ pkgs[7].havepackage = 0
  /\ Len(conf) = 3

====
